---- MODULE Spec2Model ----
(***************************************************************************)
(* Incremental synchronisation pipeline of translate-docs-script            *)
(* (src/main.ts): remote listing, change detection against the persisted    *)
(* fingerprint document, per-file transformation, output write and the      *)
(* final rewrite of the fingerprint document.  One behaviour is a sequence  *)
(* of runs of the script over one remote tree and one fingerprint document. *)
(***************************************************************************)
EXTENDS Integers, Sequences, FiniteSets, TLC

\* ------------------------------------------------------------------ bounds
\* Number of distinct repository paths (path k is the k-th path in tree order).
MaxFiles == 2
\* Number of distinct fingerprints (blob shas); they are only compared.
MaxSha == 2
\* Number of runs of the script in one behaviour.
MaxRuns == 2

Paths == 1..MaxFiles
Shas == 1..MaxSha

\* ----------------------------------------------------------- configuration
\* The environment variables the script reads.
Settings ==
    { "GH_ACCESS_TOKEN", "GH_OWNER", "GH_REPO", "TARGET_DIRECTORY_PATH",
      "HASH_FILE_PATH", "TARGET_FILE_EXTENSION", "PROMPT_URL",
      "VERTEX_AI_PROJECT_ID", "VERTEX_AI_LOCATION", "VERTEX_AI_MODEL" }

\* The required settings of the run (the access token is checked apart, line 9).
RequiredSettings == Settings \ {"GH_ACCESS_TOKEN"}

\* Environments of a run: everything set, or exactly one setting missing.
Envs == {Settings} \cup { Settings \ {s} : s \in Settings }

\* main.ts:9   if (!githubToken)
TokenMissing(e) == "GH_ACCESS_TOKEN" \notin e

\* main.ts:158   if (!owner || !repo || !directoryPath || !hashFilePath)
MainConfigMissing(e) ==
    \/ "GH_OWNER" \notin e
    \/ "GH_REPO" \notin e
    \/ "TARGET_DIRECTORY_PATH" \notin e
    \/ "HASH_FILE_PATH" \notin e

\* main.ts:36   if (!extention)
ExtensionMissing(e) == "TARGET_FILE_EXTENSION" \notin e

\* main.ts:106   if (!projectId || !location || !model || !prompt_url)
GenConfigMissing(e) ==
    \/ "VERTEX_AI_PROJECT_ID" \notin e
    \/ "VERTEX_AI_LOCATION" \notin e
    \/ "VERTEX_AI_MODEL" \notin e
    \/ "PROMPT_URL" \notin e

\* ------------------------------------------------------------- remote tree
\* Entries of the recursive tree of the default branch.  Every model path lies
\* under the prefix and carries the extension; an entry is a file ("blob") or
\* a directory ("tree").
TreeItems ==
    [path : Paths, type : {"blob"}, sha : Shas]
        \cup [path : Paths, type : {"tree"}, sha : {1}]

\* Trees list their entries in path order, each path once.
Trees ==
    { t \in UNION { [1..n -> TreeItems] : n \in 0..MaxFiles } :
        \A j \in 1..Len(t), k \in 1..Len(t) : j < k => t[j].path < t[k].path }

\* main.ts:51-57   treeData.tree.filter(...)
RECURSIVE FilterBlobs(_)
FilterBlobs(t) ==
    IF t = <<>> THEN <<>>
    ELSE IF Head(t).type = "blob"
         THEN <<Head(t)>> \o FilterBlobs(Tail(t))
         ELSE FilterBlobs(Tail(t))

\* main.ts:59-64   files.map(file => ({path, sha, content_url}))
\* (content_url is a function of the path and is not kept apart).
RECURSIVE ToFileInfo(_)
ToFileInfo(t) ==
    IF t = <<>> THEN <<>>
    ELSE <<[path |-> Head(t).path, sha |-> Head(t).sha]>> \o ToFileInfo(Tail(t))

\* main.ts:28-69   getFilesInDirectory: exits on a missing extension or on a
\* thrown request, else returns the filtered, mapped listing.
GetFilesInDirectory(e, t, apiOk) ==
    IF ExtensionMissing(e) THEN [exits |-> TRUE, sent |-> FALSE, files |-> <<>>]
    ELSE IF ~apiOk THEN [exits |-> TRUE, sent |-> TRUE, files |-> <<>>]
    ELSE [exits |-> FALSE, sent |-> TRUE, files |-> ToFileInfo(FilterBlobs(t))]

\* main.ts:165   if (!filesInRepo): an array, even an empty one, is truthy, and
\* getFilesInDirectory returns nothing else.
IsFalsy(files) == FALSE

\* ---------------------------------------------------- fingerprint document
\* The document is absent, unparsable, or JSON text: the object's members in
\* the order they were written, each <<path, sha>>.
EmptyEntries == <<>>

DocMissing == [kind |-> "missing", entries |-> EmptyEntries]
DocCorrupt == [kind |-> "corrupt", entries |-> EmptyEntries]
DocJson(entries) == [kind |-> "json", entries |-> entries]

\* Documents the script has written: members in listing (path) order.
JsonDocs ==
    { DocJson(s) : s \in
        { s \in UNION { [1..n -> Paths \X Shas] : n \in 0..MaxFiles } :
            \A j \in 1..Len(s), k \in 1..Len(s) : j < k => s[j][1] < s[k][1] } }

Docs == {DocMissing, DocCorrupt} \cup JsonDocs

\* main.ts:83   existingsHashes[file.path]: the value of the last member with
\* that key, as a set: empty when the property is undefined.
RECURSIVE Lookup(_, _)
Lookup(entries, path) ==
    IF entries = <<>> THEN {}
    ELSE IF entries[Len(entries)][1] = path
         THEN {entries[Len(entries)][2]}
         ELSE Lookup(SubSeq(entries, 1, Len(entries) - 1), path)

\* A comparison that takes a path without a stored entry for unchanged.
ChangedIfPresent(file, entries) ==
    /\ Lookup(entries, file.path) # {}
    /\ Lookup(entries, file.path) # {file.sha}

\* main.ts:83   existingsHashes[file.path] !== file.sha
Changed(file, entries) == Lookup(entries, file.path) # {file.sha}

\* A filter that lets every listed file through.
FilterChangedAll(repoFiles, entries) == repoFiles

\* A filter that collects the changed files last to first.
RECURSIVE FilterChangedReversed(_, _)
FilterChangedReversed(repoFiles, entries) ==
    IF repoFiles = <<>> THEN <<>>
    ELSE IF Changed(Head(repoFiles), entries)
         THEN FilterChangedReversed(Tail(repoFiles), entries) \o <<Head(repoFiles)>>
         ELSE FilterChangedReversed(Tail(repoFiles), entries)

\* main.ts:82-84   repoFiles.filter(...)
RECURSIVE FilterChanged(_, _)
FilterChanged(repoFiles, entries) ==
    IF repoFiles = <<>> THEN <<>>
    ELSE IF Changed(Head(repoFiles), entries)
         THEN <<Head(repoFiles)>> \o FilterChanged(Tail(repoFiles), entries)
         ELSE FilterChanged(Tail(repoFiles), entries)

\* A load that answers every read error, NotFound too, with no change.
LoadAndDetectDiffsSwallow(repoFiles, d) ==
    IF d.kind = "json"
    THEN [exits |-> FALSE, files |-> FilterChanged(repoFiles, d.entries)]
    ELSE [exits |-> FALSE, files |-> <<>>]

\* main.ts:77-96   loadAndDetectDiffs: NotFound returns the whole listing, any
\* other read or parse error exits.
LoadAndDetectDiffs(repoFiles, d) ==
    IF d.kind = "missing" THEN [exits |-> FALSE, files |-> repoFiles]
    ELSE IF d.kind = "corrupt" THEN [exits |-> TRUE, files |-> <<>>]
    ELSE [exits |-> FALSE, files |-> FilterChanged(repoFiles, d.entries)]

\* main.ts:172   if (changedFiles && changedFiles.length > 0)
HasChanges(files) == Len(files) > 0

\* A branch that goes on to the commit with an empty change set.
AfterDiffAlwaysCommit(files) ==
    IF HasChanges(files) THEN "processing" ELSE "committing"

\* main.ts:172-173, 193-196   where main goes once the change set is known.
AfterDiff(files) ==
    IF HasChanges(files) THEN "processing" ELSE "exit0"

\* main.ts:186   acc[file.path] = file.sha: replaces the member's value in
\* place when the key exists, else adds the member at the end.
SetMember(acc, path, sha) ==
    IF \E j \in 1..Len(acc) : acc[j][1] = path
    THEN [j \in 1..Len(acc) |-> IF acc[j][1] = path THEN <<path, sha>> ELSE acc[j]]
    ELSE Append(acc, <<path, sha>>)

\* main.ts:185-188   changedFiles.reduce(..., {})
RECURSIVE ReduceHashes(_, _)
ReduceHashes(files, acc) ==
    IF files = <<>> THEN acc
    ELSE ReduceHashes(Tail(files), SetMember(acc, Head(files).path, Head(files).sha))

\* main.ts:185-190   the mapping handed to saveHashToJson.
NewHashes(files) == ReduceHashes(files, EmptyEntries)

\* main.ts:18-26   saveHashToJson: Deno.writeTextFile truncates the document
\* and writes it in place.  A failure leaves the old document (the open
\* failed) or a truncated one (the write failed); then the script exits.
SaveOutcomes(d, entries) ==
    { [failed |-> FALSE, exits |-> FALSE, doc |-> DocJson(entries)],
      [failed |-> TRUE, exits |-> TRUE, doc |-> d],
      [failed |-> TRUE, exits |-> TRUE, doc |-> DocCorrupt] }

\* ------------------------------------------------------------ transformer
\* Responses of the generative service: a list of candidates, each a list of
\* text parts.
Responses ==
    { <<>>, << <<"p">> >>, << <<"p", "q">>, <<"r">> >> }

\* What the outside world does to one call of translateText: which request
\* throws, if any, and what the service answers.
TransformInputs == [fail : {"none", "raw", "prompt", "generate"}, resp : Responses]

\* main.ts:126-128   candidates.flatMap(c => c.content.parts.map(p => p.text))
RECURSIVE FlatMapParts(_)
FlatMapParts(candidates) ==
    IF candidates = <<>> THEN <<>>
    ELSE Head(candidates) \o FlatMapParts(Tail(candidates))

NoResult(sent) == [throws |-> FALSE, sent |-> sent, defined |-> FALSE, texts |-> <<>>]
Thrown(sent) == [throws |-> TRUE, sent |-> sent, defined |-> FALSE, texts |-> <<>>]

\* main.ts:99, 111, 123   the request of this call the outside world fails,
\* if the call gets to send it.
TransformError(e, in) ==
    IF in.fail = "raw" THEN {"raw"}
    ELSE IF GenConfigMissing(e) THEN {}
    ELSE IF in.fail \in {"prompt", "generate"} THEN {in.fail}
    ELSE {}

\* A transformer that catches a failed request and returns undefined.
TranslateTextSwallow(e, in) ==
    IF in.fail = "raw" \/ GenConfigMissing(e) THEN NoResult({"raw"})
    ELSE IF in.fail = "prompt" THEN NoResult({"raw", "prompt"})
    ELSE IF in.fail = "generate" \/ Len(in.resp) = 0
         THEN NoResult({"raw", "prompt", "generate"})
    ELSE [throws |-> FALSE, sent |-> {"raw", "prompt", "generate"},
          defined |-> TRUE, texts |-> FlatMapParts(in.resp)]

\* main.ts:98-135   translateText: the requests it sends, whether it throws,
\* and the array it returns (defined) or undefined.
TranslateText(e, in) ==
    IF in.fail = "raw" THEN Thrown({"raw"})
    ELSE IF GenConfigMissing(e) THEN NoResult({"raw"})
    ELSE IF in.fail = "prompt" THEN Thrown({"raw", "prompt"})
    ELSE IF in.fail = "generate" THEN Thrown({"raw", "prompt", "generate"})
    ELSE IF Len(in.resp) > 0
         THEN [throws |-> FALSE, sent |-> {"raw", "prompt", "generate"},
               defined |-> TRUE, texts |-> FlatMapParts(in.resp)]
         ELSE NoResult({"raw", "prompt", "generate"})

\* A join with the empty separator.
RECURSIVE JoinNoSeparator(_, _)
JoinNoSeparator(texts, sep) ==
    IF texts = <<>> THEN <<>>
    ELSE <<Head(texts)>> \o JoinNoSeparator(Tail(texts), sep)

\* main.ts:178   translatedContent.join('\n'): the text as a sequence of
\* fragments, "\n" being the separator.
RECURSIVE Join(_, _)
Join(texts, sep) ==
    IF texts = <<>> THEN <<>>
    ELSE IF Len(texts) = 1 THEN texts
    ELSE <<Head(texts), sep>> \o Join(Tail(texts), sep)

\* A loop that gives the run up when a file has no result.
AfterSkipAbort(last) == "exit1"

\* main.ts:179-181   the else branch of the loop body logs; the loop goes on
\* to the next file, or ends after the last one.
AfterSkip(last) == IF last THEN "committing" ELSE "processing"

\* A writer that logs the failure and returns.
WriteFileSwallow(ok) == [wrote |-> ok, exits |-> FALSE]

\* main.ts:137-145   writeFile: a failed Deno.writeTextFile exits the process.
WriteFile(ok) == [wrote |-> ok, exits |-> ~ok]

\* ------------------------------------------------------------------ state
VARIABLES
    tree,          \* the remote repository's tree (does not change)
    doc,           \* the fingerprint document at HASH_FILE_PATH
    runs,          \* runs started so far
    prevExit,      \* how the previous run ended: "idle", "exit0", "exit1"
    env,           \* the settings present in the current run
    pc,            \* main's position: idle, listing, diffing, processing,
                   \* committing, exit0, exit1
    filesInRepo,   \* main.ts:163
    changedFiles,  \* main.ts:170
    i,             \* index of the file the loop of main.ts:175 is at
    transformed,   \* paths handed to translateText in this run, in order
    generated,     \* paths for which generateContent was invoked in this run
    written,       \* output files written in this run: [path, response,
                   \* content], response being the service's answer
    net,           \* kinds of request sent in this run
    failures,      \* failures the outside world raised in this run
    reached,       \* steps of main entered in this run
    docAtStart     \* the fingerprint document when the run started

vars ==
    << tree, doc, runs, prevExit, env, pc, filesInRepo, changedFiles, i,
       transformed, generated, written, net, failures, reached, docAtStart >>

Init ==
    /\ tree \in Trees
    /\ doc \in Docs
    /\ runs = 0
    /\ prevExit = "idle"
    /\ env = Settings
    /\ pc = "idle"
    /\ filesInRepo = <<>>
    /\ changedFiles = <<>>
    /\ i = 0
    /\ transformed = <<>>
    /\ generated = <<>>
    /\ written = <<>>
    /\ net = {}
    /\ failures = {}
    /\ reached = {}
    /\ docAtStart = doc

Exited == pc \in {"exit0", "exit1"}

\* main.ts:5-16, 147-161   a run starts: the process reads its settings and
\* exits when the token or one of main's four settings is missing.
StartRunAs(count) ==
    /\ pc = "idle" \/ Exited
    /\ \E e \in Envs :
        /\ env' = e
        /\ pc' = IF TokenMissing(e) \/ MainConfigMissing(e) THEN "exit1" ELSE "listing"
    /\ runs' = count
    /\ prevExit' = pc
    /\ docAtStart' = doc
    /\ filesInRepo' = <<>>
    /\ changedFiles' = <<>>
    /\ i' = 0
    /\ transformed' = <<>>
    /\ generated' = <<>>
    /\ written' = <<>>
    /\ net' = {}
    /\ failures' = {}
    /\ reached' = {"init"}
    /\ UNCHANGED <<tree, doc>>

\* A run of a behaviour of at most MaxRuns runs.
StartRun == runs < MaxRuns /\ StartRunAs(runs + 1)

\* main.ts:163-168   Listing.
Listing ==
    /\ pc = "listing"
    /\ \E apiOk \in BOOLEAN :
        LET r == GetFilesInDirectory(env, tree, apiOk) IN
        /\ net' = IF r.sent THEN net \cup {"listing"} ELSE net
        /\ failures' = IF r.sent /\ ~apiOk THEN failures \cup {"listing"} ELSE failures
        /\ filesInRepo' = r.files
        /\ pc' = IF r.exits \/ IsFalsy(r.files) THEN "exit1" ELSE "diffing"
    /\ reached' = reached \cup {"listing"}
    /\ UNCHANGED <<tree, doc, runs, prevExit, env, changedFiles, i, transformed,
                   generated, written, docAtStart>>

\* main.ts:170-173, 193-196   Diffing, and the branch on the change set.
Diffing ==
    /\ pc = "diffing"
    /\ LET r == LoadAndDetectDiffs(filesInRepo, doc) IN
        /\ changedFiles' = r.files
        /\ failures' = IF doc.kind = "corrupt" THEN failures \cup {"load"} ELSE failures
        /\ pc' = IF r.exits THEN "exit1" ELSE AfterDiff(r.files)
        /\ i' = IF ~r.exits /\ AfterDiff(r.files) = "processing" THEN 1 ELSE i
    /\ reached' = reached \cup {"diffing"}
    /\ UNCHANGED <<tree, doc, runs, prevExit, env, filesInRepo, transformed,
                   generated, written, net, docAtStart>>

\* main.ts:175-182   one iteration of the loop: translateText, then writeFile
\* or the skip.
ProcessFile ==
    /\ pc = "processing"
    /\ \E in \in TransformInputs, writeOk \in BOOLEAN :
        LET file == changedFiles[i]
            r == TranslateText(env, in)
            w == WriteFile(writeOk)
            last == i = Len(changedFiles)
        IN
        /\ transformed' = Append(transformed, file.path)
        /\ net' = net \cup r.sent
        /\ generated' = IF "generate" \in r.sent
                        THEN Append(generated, file.path) ELSE generated
        /\ IF r.throws
           THEN /\ pc' = "exit1"
                /\ failures' = failures \cup TransformError(env, in)
                /\ UNCHANGED <<written, i>>
           ELSE IF r.defined
           THEN /\ written' = IF w.wrote
                              THEN Append(written, [path |-> file.path,
                                                    response |-> in.resp,
                                                    content |-> Join(r.texts, "\n")])
                              ELSE written
                /\ failures' = IF writeOk THEN failures ELSE failures \cup {"write"}
                /\ pc' = IF w.exits THEN "exit1"
                         ELSE IF last THEN "committing" ELSE "processing"
                /\ i' = IF w.exits \/ last THEN i ELSE i + 1
           ELSE /\ pc' = AfterSkip(last)
                /\ i' = IF AfterSkip(last) = "processing" THEN i + 1 ELSE i
                /\ failures' = failures \cup TransformError(env, in)
                /\ UNCHANGED written
    /\ reached' = reached \cup {"processing"}
    /\ UNCHANGED <<tree, doc, runs, prevExit, env, filesInRepo, changedFiles,
                   docAtStart>>

\* A commit that starts the new mapping from the entries it loaded.
CommitCarryForward ==
    /\ pc = "committing"
    /\ \E o \in SaveOutcomes(doc, ReduceHashes(changedFiles, docAtStart.entries)) :
        /\ doc' = o.doc
        /\ failures' = IF o.failed THEN failures \cup {"save"} ELSE failures
        /\ pc' = IF o.exits THEN "exit1" ELSE "exit0"
    /\ reached' = reached \cup {"committing"}
    /\ UNCHANGED <<tree, runs, prevExit, env, filesInRepo, changedFiles, i,
                   transformed, generated, written, net, docAtStart>>

\* main.ts:184-192   Committing: the new mapping and saveHashToJson.
Commit ==
    /\ pc = "committing"
    /\ \E o \in SaveOutcomes(doc, NewHashes(changedFiles)) :
        /\ doc' = o.doc
        /\ failures' = IF o.failed THEN failures \cup {"save"} ELSE failures
        /\ pc' = IF o.exits THEN "exit1" ELSE "exit0"
    /\ reached' = reached \cup {"committing"}
    /\ UNCHANGED <<tree, runs, prevExit, env, filesInRepo, changedFiles, i,
                   transformed, generated, written, net, docAtStart>>

Next == StartRun \/ Listing \/ Diffing \/ ProcessFile \/ Commit

Spec == Init /\ [][Next]_vars

\* ------------------------------------------ the variant script (part_000)
\* The earlier version of the script kept beside main.ts.  It reads the owner
\* and the repository from other variables, never calls Deno.exit, and logs
\* the errors it catches.

\* part_000:7, 26, 86-90, 124-127   the environment variables it reads.
VariantSettings ==
    { "GH_ACCESS_TOKEN", "GITHUB_OWNER", "GITHUB_REPOSITORY",
      "TARGET_DIRECTORY_PATH", "HASH_FILE_PATH", "TARGET_FILE_EXTENSION",
      "PROMPT_URL", "VERTEX_AI_PROJECT_ID", "VERTEX_AI_LOCATION",
      "VERTEX_AI_MODEL" }

\* Environments of a run: everything set, or one of the settings the script
\* tests missing.
VariantEnvs ==
    {VariantSettings}
        \cup { VariantSettings \ {x} : x \in VariantSettings \ {"GH_ACCESS_TOKEN"} }

\* part_000:129   if (!owner || !repo || !directoryPath || !hashFilePath)
VariantMainConfigMissing(e) ==
    \/ "GITHUB_OWNER" \notin e
    \/ "GITHUB_REPOSITORY" \notin e
    \/ "TARGET_DIRECTORY_PATH" \notin e
    \/ "HASH_FILE_PATH" \notin e

\* part_000:20-60   getFilesInDirectory: returns undefined on a missing
\* extension and on a caught error, else the filtered, mapped listing.
VariantGetFilesInDirectory(e, t, apiOk) ==
    IF ExtensionMissing(e) THEN [defined |-> FALSE, sent |-> FALSE, files |-> <<>>]
    ELSE IF ~apiOk THEN [defined |-> FALSE, sent |-> TRUE, files |-> <<>>]
    ELSE [defined |-> TRUE, sent |-> TRUE, files |-> ToFileInfo(FilterBlobs(t))]

\* part_000:68-82   loadAndDetectDiffs: every error of the read or the parse,
\* NotFound too, is logged and answered with an empty change set.
VariantLoadAndDetectDiffs(repoFiles, d) ==
    IF d.kind = "json" THEN FilterChanged(repoFiles, d.entries) ELSE <<>>

\* part_000:111   JSON.stringify(await resp.response): the response as text,
\* brackets around the candidates and around each candidate's parts.
RECURSIVE StringifyCandidates(_)
StringifyCandidates(candidates) ==
    IF candidates = <<>> THEN <<>>
    ELSE <<"[">> \o Head(candidates) \o <<"]">> \o StringifyCandidates(Tail(candidates))

StringifyResponse(resp) == <<"[">> \o StringifyCandidates(resp) \o <<"]">>

\* part_000:84-112   translateText: as main.ts:98-123, then the whole response
\* as JSON text, whatever its candidates.
VariantTranslateText(e, in) ==
    IF in.fail = "raw" THEN Thrown({"raw"})
    ELSE IF GenConfigMissing(e) THEN NoResult({"raw"})
    ELSE IF in.fail = "prompt" THEN Thrown({"raw", "prompt"})
    ELSE IF in.fail = "generate" THEN Thrown({"raw", "prompt", "generate"})
    ELSE [throws |-> FALSE, sent |-> {"raw", "prompt", "generate"},
          defined |-> TRUE, texts |-> StringifyResponse(in.resp)]

\* part_000:114-121   writeFile: a failed Deno.writeTextFile is logged.
VariantWriteFile(ok) == [wrote |-> ok, exits |-> FALSE]

\* part_000:11-18   saveHashToJson: a failed Deno.writeTextFile is logged; the
\* document is then the old one or a truncated one.
VariantSaveOutcomes(d, entries) ==
    { [failed |-> FALSE, exits |-> FALSE, doc |-> DocJson(entries)],
      [failed |-> TRUE, exits |-> FALSE, doc |-> d],
      [failed |-> TRUE, exits |-> FALSE, doc |-> DocCorrupt] }

InitVariant ==
    /\ tree \in Trees
    /\ doc \in Docs
    /\ runs = 0
    /\ prevExit = "idle"
    /\ env = VariantSettings
    /\ pc = "idle"
    /\ filesInRepo = <<>>
    /\ changedFiles = <<>>
    /\ i = 0
    /\ transformed = <<>>
    /\ generated = <<>>
    /\ written = <<>>
    /\ net = {}
    /\ failures = {}
    /\ reached = {}
    /\ docAtStart = doc

\* part_000:5-9, 123-132   a run starts; with one of main's four settings
\* missing main returns and the process ends with status zero.
VariantStartRun ==
    /\ pc = "idle" \/ Exited
    /\ runs < MaxRuns
    /\ \E e \in VariantEnvs :
        /\ env' = e
        /\ pc' = IF VariantMainConfigMissing(e) THEN "exit0" ELSE "listing"
    /\ runs' = runs + 1
    /\ prevExit' = pc
    /\ docAtStart' = doc
    /\ filesInRepo' = <<>>
    /\ changedFiles' = <<>>
    /\ i' = 0
    /\ transformed' = <<>>
    /\ generated' = <<>>
    /\ written' = <<>>
    /\ net' = {}
    /\ failures' = {}
    /\ reached' = {"init"}
    /\ UNCHANGED <<tree, doc>>

\* part_000:134-139   the listing; main returns when it is undefined.
VariantListing ==
    /\ pc = "listing"
    /\ \E apiOk \in BOOLEAN :
        LET r == VariantGetFilesInDirectory(env, tree, apiOk) IN
        /\ net' = IF r.sent THEN net \cup {"listing"} ELSE net
        /\ failures' = IF r.sent /\ ~apiOk THEN failures \cup {"listing"} ELSE failures
        /\ filesInRepo' = r.files
        /\ pc' = IF r.defined THEN "diffing" ELSE "exit0"
    /\ reached' = reached \cup {"listing"}
    /\ UNCHANGED <<tree, doc, runs, prevExit, env, changedFiles, i, transformed,
                   generated, written, docAtStart>>

\* part_000:141-145   the change set; the loop is entered whatever its length.
VariantDiffing ==
    /\ pc = "diffing"
    /\ changedFiles' = VariantLoadAndDetectDiffs(filesInRepo, doc)
    /\ failures' = IF doc.kind = "corrupt" THEN failures \cup {"load"} ELSE failures
    /\ pc' = IF Len(changedFiles') > 0 THEN "processing" ELSE "committing"
    /\ i' = IF Len(changedFiles') > 0 THEN 1 ELSE i
    /\ reached' = reached \cup {"diffing"}
    /\ UNCHANGED <<tree, doc, runs, prevExit, env, filesInRepo, transformed,
                   generated, written, net, docAtStart>>

\* part_000:145-152   one iteration of the loop.
VariantProcessFile ==
    /\ pc = "processing"
    /\ \E in \in TransformInputs, writeOk \in BOOLEAN :
        LET file == changedFiles[i]
            r == VariantTranslateText(env, in)
            w == VariantWriteFile(writeOk)
            last == i = Len(changedFiles)
        IN
        /\ transformed' = Append(transformed, file.path)
        /\ net' = net \cup r.sent
        /\ generated' = IF "generate" \in r.sent
                        THEN Append(generated, file.path) ELSE generated
        /\ IF r.throws
           THEN /\ pc' = "exit1"
                /\ failures' = failures \cup TransformError(env, in)
                /\ UNCHANGED <<written, i>>
           ELSE IF r.defined
           THEN /\ written' = IF w.wrote
                              THEN Append(written, [path |-> file.path,
                                                    response |-> in.resp,
                                                    content |-> r.texts])
                              ELSE written
                /\ failures' = IF writeOk THEN failures ELSE failures \cup {"write"}
                /\ pc' = IF w.exits THEN "exit1"
                         ELSE IF last THEN "committing" ELSE "processing"
                /\ i' = IF w.exits \/ last THEN i ELSE i + 1
           ELSE /\ pc' = IF last THEN "committing" ELSE "processing"
                /\ i' = IF last THEN i ELSE i + 1
                /\ UNCHANGED <<written, failures>>
    /\ reached' = reached \cup {"processing"}
    /\ UNCHANGED <<tree, doc, runs, prevExit, env, filesInRepo, changedFiles,
                   docAtStart>>

\* part_000:154-160   the new mapping and saveHashToJson; main returns.
VariantCommit ==
    /\ pc = "committing"
    /\ \E o \in VariantSaveOutcomes(doc, NewHashes(changedFiles)) :
        /\ doc' = o.doc
        /\ failures' = IF o.failed THEN failures \cup {"save"} ELSE failures
        /\ pc' = IF o.exits THEN "exit1" ELSE "exit0"
    /\ reached' = reached \cup {"committing"}
    /\ UNCHANGED <<tree, runs, prevExit, env, filesInRepo, changedFiles, i,
                   transformed, generated, written, net, docAtStart>>

NextVariant ==
    \/ VariantStartRun
    \/ VariantListing
    \/ VariantDiffing
    \/ VariantProcessFile
    \/ VariantCommit

SpecVariant == InitVariant /\ [][NextVariant]_vars

\* ------------------------------------------------- repeated runs of main.ts
\* Runs of main.ts without end over an unchanging tree, with every setting
\* present and every request, write and save succeeding.  The document the
\* first run finds is absent or one the script wrote.

InitConverge ==
    /\ Init
    /\ doc \in {DocMissing} \cup JsonDocs

\* main.ts:5-161   the next run starts; the counter stops at MaxRuns.
ConvergeStartRun ==
    /\ StartRunAs(IF runs < MaxRuns THEN runs + 1 ELSE runs)
    /\ env' = Settings

\* main.ts:163-168   the listing requests succeed.
ConvergeListing == Listing /\ failures' = {}

\* main.ts:170-196   the document parses, as the script wrote it.
ConvergeDiffing == Diffing /\ failures' = {}

\* main.ts:175-182   the transformer yields a text and the write succeeds.
ConvergeProcessFile ==
    /\ ProcessFile
    /\ failures' = {}
    /\ Len(written') = Len(written) + 1

\* main.ts:184-192   the save succeeds.
ConvergeCommit == Commit /\ failures' = {}

NextConverge ==
    \/ ConvergeStartRun
    \/ ConvergeListing
    \/ ConvergeDiffing
    \/ ConvergeProcessFile
    \/ ConvergeCommit

\* Every await of a run resolves and the script is run again after each run.
SpecConverge == InitConverge /\ [][NextConverge]_vars /\ WF_vars(NextConverge)

\* ---------------------------------------------------------------- helpers
\* The paths of a sequence of files or of write records.
PathsOf(files) == { files[k].path : k \in 1..Len(files) }

\* The fingerprints a document holds for a path, read off its members.
StoredFor(d, path) ==
    { d.entries[j][2] : j \in { j \in 1..Len(d.entries) : d.entries[j][1] = path } }

\* The Diffing step of the current run has run and its load did not fail.
Diffed == "diffing" \in reached /\ "load" \notin failures

\* The current run went through Committing and ended with status zero.
Committed == pc = "exit0" /\ "committing" \in reached

\* ------------------------------------------------------------------ claims

\* C1: once a run has loaded a stored mapping, a listed file is in the change
\* set if and only if the mapping has no entry for its path or an entry that
\* differs from its listed sha.
C1_ChangeDetection ==
    (Diffed /\ docAtStart.kind = "json") =>
        \A k \in 1..Len(filesInRepo) :
            (\E j \in 1..Len(changedFiles) : changedFiles[j] = filesInRepo[k])
                <=> \/ StoredFor(docAtStart, filesInRepo[k].path) = {}
                    \/ StoredFor(docAtStart, filesInRepo[k].path) # {filesInRepo[k].sha}

\* A run diffed a stored mapping against a listing of which one file changed
\* and another did not.
C1_Witness ==
    /\ Diffed
    /\ docAtStart.kind = "json"
    /\ Len(changedFiles) > 0
    /\ Len(changedFiles) < Len(filesInRepo)

\* C2 (as claimed): a run that ends with status zero right after a run that
\* ended with status zero has transformed no file and left the content of the
\* fingerprint document as it found it.
C2_Idempotence ==
    (prevExit = "exit0" /\ pc = "exit0") =>
        /\ transformed = <<>>
        /\ doc = docAtStart

\* C3 (as claimed): after a run that committed, the document has no entry for
\* a changed file that was not written.
C3_SkipNotCommitted ==
    Committed =>
        \A k \in 1..Len(changedFiles) :
            changedFiles[k].path \notin PathsOf(written)
                => StoredFor(doc, changedFiles[k].path) = {}

\* C4 (as claimed): after a run that committed, the document holds the prior
\* entry of every listed file that was unchanged and the listed sha of every
\* file of the change set.
C4_CarryForward ==
    Committed =>
        \A k \in 1..Len(filesInRepo) :
            IF filesInRepo[k].path \in PathsOf(changedFiles)
            THEN StoredFor(doc, filesInRepo[k].path) = {filesInRepo[k].sha}
            ELSE StoredFor(doc, filesInRepo[k].path)
                    = StoredFor(docAtStart, filesInRepo[k].path)

\* C5: when no fingerprint document exists, the load is not an error (the run
\* does not exit at Diffing) and the change set is the whole listing.
C5_FirstRunComplete ==
    ("diffing" \in reached /\ docAtStart.kind = "missing") =>
        /\ changedFiles = filesInRepo
        /\ "load" \notin failures
        /\ pc = "exit1" => "processing" \in reached

\* A first run over a listing of two files or more has diffed.
C5_Witness ==
    /\ "diffing" \in reached
    /\ docAtStart.kind = "missing"
    /\ Len(filesInRepo) >= 2

\* C6: when the write of the i-th changed file has failed, the run has ended
\* with status one, exactly the first i changed files were handed to the
\* transformer, and the fingerprint document was not rewritten.
C6_WriteFailureAborts ==
    "write" \in failures =>
        /\ pc = "exit1"
        /\ transformed = [k \in 1..i |-> changedFiles[k].path]
        /\ "committing" \notin reached
        /\ doc = docAtStart

\* The write of a changed file failed with another changed file after it.
C6_Witness ==
    /\ "write" \in failures
    /\ i < Len(changedFiles)

\* C7 (as claimed): after saveHashToJson has failed, the fingerprint document
\* is the one the run started with.
C7_AtomicCommit ==
    "save" \in failures => doc = docAtStart

\* C8 (as claimed): a run with a required setting missing sends no request
\* and does not end with status zero.
C8_ConfigAbortsBeforeNetwork ==
    (runs > 0 /\ ~(RequiredSettings \subseteq env)) =>
        /\ net = {}
        /\ pc # "exit0"

\* C9 (as claimed): once the listing step has failed or returned no file, the
\* run has ended with status one and Diffing is not entered.
C9_EmptyListingAborts ==
    ("listing" \in reached /\ filesInRepo = <<>>) =>
        /\ pc = "exit1"
        /\ "diffing" \notin reached

\* C10: when Diffing yields an empty change set the run has ended with status
\* zero, has transformed and written nothing, and has not rewritten the
\* fingerprint document.
C10_EmptyChangeSetNoOp ==
    (Diffed /\ changedFiles = <<>>) =>
        /\ pc = "exit0"
        /\ transformed = <<>>
        /\ written = <<>>
        /\ "processing" \notin reached
        /\ "committing" \notin reached
        /\ doc = docAtStart

\* A run found every file of a non-empty listing unchanged.
C10_Witness ==
    /\ Diffed
    /\ changedFiles = <<>>
    /\ Len(filesInRepo) > 0

\* The paths of the first n files of the change set, in order.
ChangedPaths(n) == [k \in 1..n |-> changedFiles[k].path]

\* The elements of a sequence of paths.
Elems(seq) == { seq[k] : k \in 1..Len(seq) }

\* A listed file whose sha is the one the loaded document holds for its path.
Unchanged(file) ==
    docAtStart.kind = "json" /\ StoredFor(docAtStart, file.path) = {file.sha}

\* A request of translateText has failed in the current run.
TransformFailed == failures \cap {"raw", "prompt", "generate"} # {}

\* C11: only files of the change set are fetched, sent to the generative
\* service or written, and a listed file whose sha equals its stored sha is
\* none of these.
C11_FingerprintIsolation ==
    /\ Elems(transformed) \subseteq PathsOf(changedFiles)
    /\ Elems(generated) \subseteq PathsOf(changedFiles)
    /\ PathsOf(written) \subseteq PathsOf(changedFiles)
    /\ \A k \in 1..Len(filesInRepo) :
        Unchanged(filesInRepo[k]) =>
            filesInRepo[k].path \notin
                Elems(transformed) \cup Elems(generated) \cup PathsOf(written)

\* A run transformed a file while another listed file was unchanged.
C11_Witness ==
    /\ Len(generated) > 0
    /\ Len(written) > 0
    /\ \E k \in 1..Len(filesInRepo) : Unchanged(filesInRepo[k])

\* C12: when a request of translateText has failed for the i-th changed file
\* the run has ended with status one, the first i changed files and no other
\* were handed to the transformer, the fingerprint document was not rewritten,
\* and the failing step leaves the outputs written so far as they are.
C12_TransformErrorFatal ==
    /\ [](TransformFailed =>
            /\ pc = "exit1"
            /\ transformed = ChangedPaths(i)
            /\ PathsOf(written) \subseteq Elems(ChangedPaths(i - 1))
            /\ "committing" \notin reached
            /\ doc = docAtStart)
    /\ [][(~TransformFailed /\ TransformFailed') => written' = written]_vars

\* A request failed for the second changed file after the first was written.
C12_Witness ==
    /\ TransformFailed
    /\ i = 2
    /\ Len(written) = 1

\* C13: the change set keeps the order of the listing; the files handed to the
\* transformer are the change set's first files in its order, each once; while
\* the loop is at file i exactly the i - 1 files before it have been handed
\* over; and a run that got to Committing has handed over the whole change set.
C13_SinglePassInOrder ==
    /\ \E f \in [1..Len(changedFiles) -> 1..Len(filesInRepo)] :
        /\ \A k \in 1..Len(changedFiles) : filesInRepo[f[k]] = changedFiles[k]
        /\ \A j \in 1..Len(changedFiles), k \in 1..Len(changedFiles) :
            j < k => f[j] < f[k]
    /\ Len(transformed) <= Len(changedFiles)
    /\ transformed = ChangedPaths(Len(transformed))
    /\ pc = "processing" => Len(transformed) = i - 1
    /\ (pc = "committing" \/ "committing" \in reached) =>
        transformed = ChangedPaths(Len(changedFiles))

\* A run handed a change set of two files to the transformer and committed.
C13_Witness ==
    /\ Committed
    /\ Len(changedFiles) >= 2
    /\ Len(transformed) >= 2

\* A step of the loop in which the file had no result: it was handed to the
\* transformer, nothing was written and nothing failed.
SkipStep ==
    /\ pc = "processing"
    /\ Len(transformed') = Len(transformed) + 1
    /\ written' = written
    /\ failures' = failures

\* C14: a file without a result does not abort the run: the loop goes on to
\* the next changed file, or to Committing after the last one; and a run that
\* has ended after processing with no failure has committed with status zero.
C14_SkipAndContinue ==
    /\ [][SkipStep =>
            IF i < Len(changedFiles)
            THEN pc' = "processing" /\ i' = i + 1
            ELSE pc' = "committing"]_vars
    /\ []((Exited /\ "processing" \in reached /\ failures = {}) =>
            /\ Committed
            /\ transformed = ChangedPaths(Len(changedFiles)))

\* A run skipped its first changed file, went on to the second and committed.
C14_Witness ==
    /\ Committed
    /\ Len(changedFiles) >= 2
    /\ changedFiles[1].path \notin PathsOf(written)
    /\ changedFiles[2].path \in PathsOf(written)

\* The text parts of a response, last candidate's parts last.
RECURSIVE PartsOf(_)
PartsOf(resp) ==
    IF resp = <<>> THEN <<>>
    ELSE PartsOf(SubSeq(resp, 1, Len(resp) - 1)) \o resp[Len(resp)]

\* C15 (as claimed): the text of every written file is the text parts of the
\* response in order, with nothing between or around them.
C15_VerbatimConcatenation ==
    \A k \in 1..Len(written) : written[k].content = PartsOf(written[k].response)

\* C15 (amended): the text of every written file is the text parts of the
\* response in order with one line break between consecutive parts, and
\* nothing before the first or after the last.
C15_JoinedWithLineBreaks ==
    \A k \in 1..Len(written) :
        LET parts == PartsOf(written[k].response)
            text == written[k].content
        IN
        /\ Len(text) = IF parts = <<>> THEN 0 ELSE 2 * Len(parts) - 1
        /\ \A n \in 1..Len(parts) : text[2 * n - 1] = parts[n]
        /\ \A n \in 1..(Len(parts) - 1) : text[2 * n] = "\n"

\* A file was written from a response of two candidates and three parts.
C15_Witness ==
    \E k \in 1..Len(written) :
        /\ Len(written[k].response) >= 2
        /\ Len(PartsOf(written[k].response)) >= 3

\* C18: after a run has rewritten the fingerprint document, every member of
\* the document is a listed path with its listed sha, and the document's keys
\* are the paths of the run's change set.
C18_CommittedIsChangeSet ==
    Committed =>
        /\ doc.kind = "json"
        /\ \A j \in 1..Len(doc.entries) :
            \E k \in 1..Len(filesInRepo) :
                /\ filesInRepo[k].path = doc.entries[j][1]
                /\ filesInRepo[k].sha = doc.entries[j][2]
        /\ { doc.entries[j][1] : j \in 1..Len(doc.entries) } = PathsOf(changedFiles)

\* A run rewrote a document that held an entry for a listed file it did not
\* process.
C18_Witness ==
    /\ Committed
    /\ \E k \in 1..Len(filesInRepo) :
        /\ filesInRepo[k].path \notin PathsOf(changedFiles)
        /\ StoredFor(docAtStart, filesInRepo[k].path) # {}

\* C16 (as claimed): in a run of the variant script that found no fingerprint
\* document the change set is the whole listing, and once the run has
\* committed every listed file was handed to the transformer.
C16_VariantFirstRunComplete ==
    ("diffing" \in reached /\ docAtStart.kind = "missing") =>
        /\ changedFiles = filesInRepo
        /\ Committed => Elems(transformed) = PathsOf(filesInRepo)

\* C17 (as claimed): in the variant script, once the write of a changed file
\* has failed the run has ended with a non-zero status without Committing, and
\* no committed document holds an entry for a changed file whose write failed
\* or never happened.
C17_VariantWriteFailureAborts ==
    /\ "write" \in failures =>
        /\ pc = "exit1"
        /\ "committing" \notin reached
        /\ doc = docAtStart
    /\ Committed =>
        \A k \in 1..Len(changedFiles) :
            changedFiles[k].path \notin PathsOf(written)
                => StoredFor(doc, changedFiles[k].path) = {}

\* C19 (as claimed): under repeated runs in which everything succeeds, from
\* some run on every run that has diffed has an empty change set.
C19_Convergence ==
    <>[]("diffing" \in reached => changedFiles = <<>>)

====
